---- MODULE Spec2Model ----
(***************************************************************************)
(* A model of deno-gfm's mod.ts: the section stripper (stripTokens,        *)
(* stripSplitBySections, strip) and the render pipeline (Renderer, render, *)
(* the sanitizer policy).                                                  *)
(*                                                                         *)
(* Text is a sequence of one-character strings.  A token is a record with  *)
(* the fields of a Marked token that the code reads.  The token tree that  *)
(* Marked's lexer returns is the input of the section stripper.            *)
(***************************************************************************)
EXTENDS Integers, Sequences, FiniteSets, TLC

VARIABLES
  call,      \* the exported function that was called
  pc,        \* "idle", "walk" (inside stripTokens) or "done"
  tokens,    \* the token tree the lexer returned
  sections,  \* the sections array of stripSplitBySections
  stack,     \* the running stripTokens calls, innermost last
  out,       \* the text strip returned
  opts,      \* the options object the caller passed to render, as it is now
  custom,    \* the Renderer instance the caller holds
  renderer,  \* marked_opts.renderer of the render call, after parsing
  markdown,  \* the markdown render was called with
  policy,    \* the options render passed to sanitizeHtml
  html,      \* what render returned
  result,    \* "none", "returned" or "threw"
  calls      \* the render calls made so far

stripVars == <<call, pc, tokens, sections, stack, out>>
renderVars == <<opts, custom, renderer, markdown, policy, html, result, calls>>
vars == <<call, pc, tokens, sections, stack, out,
          opts, custom, renderer, markdown, policy, html, result, calls>>

\* Longest top-level token sequence of a document.
MaxTokens == 2

NL == "\n"
SP == " "
\* One unit of HTML markup (an opening or a closing tag) inside an html token.
TAG == "<b>"

-----------------------------------------------------------------------------
(* Text helpers: String.prototype.trim, String.prototype.replace.          *)

IsSpace(c) == c \in {SP, NL}

RECURSIVE TrimStart(_)
TrimStart(s) ==
  IF s = <<>> THEN <<>>
  ELSE IF IsSpace(Head(s)) THEN TrimStart(Tail(s)) ELSE s

RECURSIVE TrimEnd(_)
TrimEnd(s) ==
  IF s = <<>> THEN <<>>
  ELSE IF IsSpace(s[Len(s)]) THEN TrimEnd(SubSeq(s, 1, Len(s) - 1)) ELSE s

\* s.trim()
Trim(s) == TrimEnd(TrimStart(s))

\* Length of the run of newlines at the start of s.
RECURSIVE NewlineRun(_)
NewlineRun(s) ==
  IF s = <<>> \/ Head(s) # NL THEN 0 ELSE 1 + NewlineRun(Tail(s))

\* s.replace(/\n{3,}/g, rep): every maximal run of three or more newlines
\* becomes rep, everything else is kept.
RECURSIVE ReplaceRuns(_, _)
ReplaceRuns(s, rep) ==
  IF s = <<>> THEN <<>>
  ELSE LET n == NewlineRun(s) IN
       IF n >= 3 THEN rep \o ReplaceRuns(SubSeq(s, n + 1, Len(s)), rep)
       ELSE IF n >= 1 THEN SubSeq(s, 1, n) \o ReplaceRuns(SubSeq(s, n + 1, Len(s)), rep)
       ELSE <<Head(s)>> \o ReplaceRuns(Tail(s), rep)

\* The replacement string of the two replace calls of stripTokens and of strip.
RunReplacement == <<NL>>

\* text.trim().replace(/\n{3,}/g, "\n")
FinalizeText(s) == ReplaceRuns(Trim(s), RunReplacement)

\* sanitizeHtml(text, {allowedTags: [], allowedAttributes: {}}): the markup is
\* dropped, the text between the tags is kept.
RECURSIVE StripTags(_)
StripTags(s) ==
  IF s = <<>> THEN <<>>
  ELSE IF Head(s) = TAG THEN StripTags(Tail(s)) ELSE <<Head(s)>> \o StripTags(Tail(s))

-----------------------------------------------------------------------------
(* Tokens.                                                                 *)

Tok(type, depth, lang, raw, text, title, hasTokens, toks, items, header, rows) ==
  [type |-> type, depth |-> depth, lang |-> lang, raw |-> raw, text |-> text,
   title |-> title, hasTokens |-> hasTokens, tokens |-> toks, items |-> items,
   header |-> header, rows |-> rows]

Leaf(type, raw, text)  == Tok(type, 0, "", raw, text, <<>>, FALSE, <<>>, <<>>, <<>>, <<>>)
Node(type, toks)       == Tok(type, 0, "", <<>>, <<>>, <<>>, TRUE, toks, <<>>, <<>>, <<>>)
Text(c)                == Leaf("text", <<c>>, <<c>>)
Space(n)               == Leaf("space", [k \in 1..n |-> NL], <<>>)
Code(lang, c)          == Tok("code", 0, lang, <<>>, <<c>>, <<>>, FALSE, <<>>, <<>>, <<>>, <<>>)
Html(s)                == Leaf("html", s, s)
Codespan(c)            == Leaf("codespan", <<c>>, <<c>>)
Image(title, alt)      == Tok("image", 0, "", <<>>, alt, title, FALSE, <<>>, <<>>, <<>>, <<>>)
Heading(depth, toks)   == Tok("heading", depth, "", <<>>, <<>>, <<>>, TRUE, toks, <<>>, <<>>, <<>>)
List(items)            == Tok("list", 0, "", <<>>, <<>>, <<>>, FALSE, <<>>, items, <<>>, <<>>)
Cell(toks)             == [tokens |-> toks]
Table(header, rows)    == Tok("table", 0, "", <<>>, <<>>, <<>>, FALSE, <<>>, <<>>, header, rows)

\* The block tokens the documents of the model are built from.
Blocks ==
  { Space(2), Space(3),
    Code("", "a"), Code("math", "a"),
    Html(<<TAG, "a", TAG, NL>>),
    Leaf("hr", <<>>, <<>>),
    Node("paragraph", <<Text("a"), Node("strong", <<Text("b")>>)>>),
    Node("paragraph", <<Codespan("a"), Image(<<>>, <<"b">>), Image(<<"a">>, <<"b">>)>>),
    Heading(1, <<Text("a")>>),
    Heading(2, <<Text("a"), Node("em", <<Text("b")>>)>>),
    Heading(3, <<>>),
    Node("blockquote", <<Heading(2, <<Text("b")>>), Node("paragraph", <<Text("a")>>)>>),
    Node("blockquote", <<Node("paragraph", <<Text("a")>>), Space(3),
                         Node("paragraph", <<Text("b")>>)>>),
    List(<<Node("list_item", <<Node("text", <<Text("a")>>)>>),
           Node("list_item", <<Heading(4, <<Text("b")>>)>>)>>),
    Table(<<Cell(<<Text("a")>>), Cell(<<>>)>>, <<<<Cell(<<Text("b")>>), Cell(<<Codespan("a")>>)>>>>) }

Docs == UNION { [1..n -> Blocks] : n \in 0..MaxTokens }

-----------------------------------------------------------------------------
(* Sections.                                                               *)

NewSectionRoot(depth) == [header |-> <<>>, depth |-> 0, content |-> <<>>]

\* { header: "", depth, content: "" }
NewSection(depth) == [header |-> <<>>, depth |-> depth, content |-> <<>>]

\* sections[index][header ? "header" : "content"] += text
AppendText(secs, index, header, text) ==
  IF header THEN [secs EXCEPT ![index].header = @ \o text]
  ELSE [secs EXCEPT ![index].content = @ \o text]

\* The two assignments that finalize sections[index] at a heading token.
FinalizeAt(secs, index) ==
  [secs EXCEPT ![index].header = FinalizeText(@),
               ![index].content = FinalizeText(@)]

\* The selector a token's child walk gets: stripTokens(token.tokens, sections,
\* token.type === "heading").
ChildSelector(token, header) == token.type = "heading"

\* A call of stripTokens(toks, sections, header): its local state.
Frame(toks, secs, header) ==
  [toks |-> toks, i |-> 1, index |-> Len(secs), header |-> header,
   phase |-> "enter", row |-> 0, cell |-> 1]

\* The text a leaf token appends in the switch statement.
LeafText(token) ==
  CASE token.type = "space"     -> token.raw
    [] token.type = "code"      -> IF token.lang # "math" THEN token.text ELSE <<>>
    [] token.type = "list_item" -> <<NL>>
    [] token.type = "html"      -> Trim(StripTags(token.text)) \o <<NL, NL>>
    [] token.type = "text"      -> IF ~token.hasTokens THEN token.raw ELSE <<>>
    [] token.type = "image"     -> IF token.title # <<>> THEN token.title ELSE token.text
    [] token.type = "codespan"  -> token.text
    [] OTHER                    -> <<>>

\* strip's map, join, trim, replace and final newline.
RECURSIVE JoinSections(_)
JoinSections(secs) ==
  IF secs = <<>> THEN <<>>
  ELSE LET s == Head(secs)
           one == s.header \o <<NL, NL>> \o s.content
       IN IF Len(secs) = 1 THEN one ELSE one \o <<NL, NL>> \o JoinSections(Tail(secs))

StripTextUncollapsed(secs) == Trim(JoinSections(secs)) \o <<NL>>

StripText(secs) == ReplaceRuns(Trim(JoinSections(secs)), RunReplacement) \o <<NL>>

-----------------------------------------------------------------------------
(* The walk of stripTokens, one step of the loop body at a time.           *)

Top == stack[Len(stack)]
Cur == Top.toks[Top.i]
Below == SubSeq(stack, 1, Len(stack) - 1)
Advance(f) == [f EXCEPT !.i = @ + 1, !.phase = "enter", !.row = 0, !.cell = 1]
Walking == pc = "walk" /\ stack # <<>>
AtToken == Walking /\ Top.i <= Len(Top.toks)

InitStrip ==
  /\ call = "none"
  /\ pc = "idle"
  /\ tokens = <<>>
  /\ sections = <<>>
  /\ stack = <<>>
  /\ out = <<>>

\* stripSplitBySections(markdown): the lexer's tokens, the seed section and the
\* top-level stripTokens call.  The functions keep no state between calls, so a
\* behaviour is one call.
StripSplitBySections ==
  /\ pc = "idle"
  /\ \E doc \in Docs :
       /\ tokens' = doc
       /\ stack' = <<Frame(doc, <<NewSection(0)>>, FALSE)>>
  /\ call' = "stripSplitBySections"
  /\ sections' = <<NewSection(0)>>
  /\ pc' = "walk"
  /\ UNCHANGED out
  /\ UNCHANGED renderVars

\* strip(markdown): the same walk through its call of stripSplitBySections; the
\* text is joined when the walk returns.
Strip ==
  /\ pc = "idle"
  /\ \E doc \in Docs :
       /\ tokens' = doc
       /\ stack' = <<Frame(doc, <<NewSection(0)>>, FALSE)>>
  /\ call' = "strip"
  /\ sections' = <<NewSection(0)>>
  /\ pc' = "walk"
  /\ UNCHANGED out
  /\ UNCHANGED renderVars

\* The head of the loop body: the heading branch, then the child walk.
Enter ==
  /\ AtToken /\ Top.phase = "enter"
  /\ LET f == Top
         token == Cur
         isHeading == token.type = "heading"
         secs1 == IF isHeading
                  THEN Append(FinalizeAt(sections, f.index), NewSection(token.depth))
                  ELSE sections
         f1 == [f EXCEPT !.index = IF isHeading THEN @ + 1 ELSE @, !.phase = "switch"]
     IN /\ sections' = secs1
        /\ stack' = IF token.hasTokens
                    THEN Below \o <<f1, Frame(token.tokens, secs1, ChildSelector(token, f.header))>>
                    ELSE Below \o <<f1>>
  /\ UNCHANGED <<call, pc, tokens, out>>
  /\ UNCHANGED renderVars

\* The switch cases that append text or do nothing.
SwitchLeaf ==
  /\ AtToken /\ Top.phase = "switch"
  /\ Cur.type \notin {"table", "list"}
  /\ sections' = AppendText(sections, Top.index, Top.header, LeafText(Cur))
  /\ stack' = Below \o <<Advance(Top)>>
  /\ UNCHANGED <<call, pc, tokens, out>>
  /\ UNCHANGED renderVars

\* case "list": stripTokens(token.items, sections, header)
SwitchList ==
  /\ AtToken /\ Top.phase = "switch"
  /\ Cur.type = "list"
  /\ stack' = Below \o <<Advance(Top), Frame(Cur.items, sections, Top.header)>>
  /\ UNCHANGED <<call, pc, tokens, sections, out>>
  /\ UNCHANGED renderVars

\* The cells of the table row being walked: row 0 is token.header.
TableRow(token, row) == IF row = 0 THEN token.header ELSE token.rows[row]

\* case "table": stripTokens(cell.tokens, sections, header) for the next cell.
TableCell ==
  /\ AtToken /\ Top.phase = "switch"
  /\ Cur.type = "table"
  /\ Top.cell <= Len(TableRow(Cur, Top.row))
  /\ stack' = Below \o <<[Top EXCEPT !.phase = "cell"],
                          Frame(TableRow(Cur, Top.row)[Top.cell].tokens, sections, Top.header)>>
  /\ UNCHANGED <<call, pc, tokens, sections, out>>
  /\ UNCHANGED renderVars

\* case "table": the space appended after a cell.
TableCellEnd ==
  /\ AtToken /\ Top.phase = "cell"
  /\ sections' = AppendText(sections, Top.index, Top.header, <<SP>>)
  /\ stack' = Below \o <<[Top EXCEPT !.phase = "switch", !.cell = @ + 1]>>
  /\ UNCHANGED <<call, pc, tokens, out>>
  /\ UNCHANGED renderVars

\* case "table": the newline appended after a row, then the next row or the
\* break.
TableRowEnd ==
  /\ AtToken /\ Top.phase = "switch"
  /\ Cur.type = "table"
  /\ Top.cell > Len(TableRow(Cur, Top.row))
  /\ sections' = AppendText(sections, Top.index, Top.header, <<NL>>)
  /\ stack' = IF Top.row < Len(Cur.rows)
              THEN Below \o <<[Top EXCEPT !.row = @ + 1, !.cell = 1]>>
              ELSE Below \o <<Advance(Top)>>
  /\ UNCHANGED <<call, pc, tokens, out>>
  /\ UNCHANGED renderVars

\* The end of a stripTokens call; the end of the top-level call returns the
\* sections, and strip joins them.
Return ==
  /\ Walking /\ Top.i > Len(Top.toks)
  /\ stack' = Below
  /\ IF Len(stack) = 1
     THEN /\ pc' = "done"
          /\ out' = IF call = "strip" THEN StripText(sections) ELSE <<>>
     ELSE UNCHANGED <<pc, out>>
  /\ UNCHANGED <<call, tokens, sections>>
  /\ UNCHANGED renderVars

-----------------------------------------------------------------------------
(* The render pipeline.                                                    *)
(*                                                                         *)
(* A markdown document is the sequence of its constructs; HTML is the      *)
(* sequence of its elements and text nodes.  An element carries where it   *)
(* came from: the markdown content, or one of the two fragments render     *)
(* puts before the body.                                                   *)

\* Longest markdown document, in constructs.
MaxItems == 3

UNDEF == "undefined"
NoEntries == [t \in {} |-> {}]

\* RenderOptions without the fields that only Marked reads.  A boolean that is
\* absent has the value its ?? default gives it; githubSlugger absent is TRUE.
DefaultOpts ==
  [baseUrl |-> UNDEF, mediaBaseUrl |-> UNDEF, allowIframes |-> FALSE,
   allowMath |-> FALSE, disableHtmlSanitization |-> FALSE, renderer |-> FALSE,
   allowedClasses |-> NoEntries, allowedTags |-> {}, allowedAttributes |-> NoEntries,
   noLinks |-> FALSE, youtubeHandling |-> UNDEF, githubSlugger |-> TRUE,
   mermaid |-> FALSE]

BaseURL == "https://base/"
MediaURL == "https://media/"

\* The option objects of the model.
Options ==
  { [DefaultOpts EXCEPT !.allowMath = m, !.mermaid = d, !.allowedTags = t] :
      m \in BOOLEAN, d \in BOOLEAN, t \in {{}, {"script"}} }
  \cup
  { [DefaultOpts EXCEPT !.disableHtmlSanitization = TRUE],
    [DefaultOpts EXCEPT !.disableHtmlSanitization = TRUE, !.mermaid = TRUE],
    [DefaultOpts EXCEPT !.noLinks = TRUE],
    [DefaultOpts EXCEPT !.githubSlugger = FALSE],
    [DefaultOpts EXCEPT !.youtubeHandling = "link"],
    [DefaultOpts EXCEPT !.youtubeHandling = "embed"],
    [DefaultOpts EXCEPT !.youtubeHandling = "embed", !.allowIframes = TRUE],
    [DefaultOpts EXCEPT !.renderer = TRUE],
    [DefaultOpts EXCEPT !.renderer = TRUE, !.allowMath = TRUE],
    [DefaultOpts EXCEPT !.baseUrl = BaseURL],
    [DefaultOpts EXCEPT !.baseUrl = BaseURL, !.mediaBaseUrl = MediaURL],
    [DefaultOpts EXCEPT !.allowedTags = {"lite-youtube"}],
    [DefaultOpts EXCEPT !.allowedClasses = [div |-> {"mine"}]],
    [DefaultOpts EXCEPT !.allowedClasses = [custom |-> {"mine"}], !.allowedTags = {"custom"}],
    [DefaultOpts EXCEPT !.allowedAttributes = [a |-> {"data-x"}]],
    [DefaultOpts EXCEPT !.allowedAttributes = [custom |-> {"data-x"}], !.allowMath = TRUE] }

Item(kind, text, valid) == [kind |-> kind, text |-> text, valid |-> valid]

\* The markdown constructs of the model.  valid: the math engine accepts the
\* expression.
Items ==
  { Item("heading", <<"f">>, TRUE),
    Item("heading", <<"F", "!">>, TRUE),
    Item("heading", <<"f", "-", "1">>, TRUE),
    Item("html_script", <<"<script>">>, TRUE),
    Item("code_mermaid", <<"<script>">>, TRUE),
    Item("code_math", <<"\\frac{">>, FALSE),
    Item("inline_math", <<"$\\frac{$">>, FALSE),
    Item("block_math", <<"$$ x $$">>, TRUE),
    Item("image_youtube", <<"https://youtu.be/", "dQw4w9WgXcQ">>, TRUE) }

Markdowns == UNION { [1..n -> Items] : n \in 0..MaxItems }

El(tag, origin, id, src, cls, text) ==
  [tag |-> tag, origin |-> origin, id |-> id, src |-> src, cls |-> cls, text |-> text]

TextNode(text) == El("#text", "content", <<>>, <<>>, {}, text)

-----------------------------------------------------------------------------
(* github-slugger.                                                         *)

Lower(c) == IF c = "F" THEN "f" ELSE c

\* slug(value) of github-slugger: lower case, the characters of its regex
\* removed, spaces replaced by "-".
RECURSIVE BaseSlug(_)
BaseSlug(value) ==
  IF value = <<>> THEN <<>>
  ELSE LET c == Lower(Head(value)) IN
       IF c = "!" THEN BaseSlug(Tail(value))
       ELSE <<IF c = SP THEN "-" ELSE c>> \o BaseSlug(Tail(value))

DigitChars == <<"0", "1", "2", "3", "4", "5", "6", "7", "8", "9">>

\* The decimal digits of n, as string concatenation writes them.
RECURSIVE Decimal(_)
Decimal(n) ==
  IF n < 10 THEN <<DigitChars[n + 1]>>
  ELSE Decimal(n \div 10) \o <<DigitChars[(n % 10) + 1]>>

SetOccurrence(occ, slug, n) ==
  [s \in DOMAIN occ \cup {slug} |-> IF s = slug THEN n ELSE occ[s]]

\* The while loop of GitHubSlugger.slug and the assignment after it.
RECURSIVE SlugLoop(_, _, _)
SlugLoop(occ, original, slug) ==
  IF slug \in DOMAIN occ
  THEN LET occ1 == SetOccurrence(occ, original, occ[original] + 1)
       IN SlugLoop(occ1, original, original \o <<"-">> \o Decimal(occ1[original]))
  ELSE [occurrences |-> SetOccurrence(occ, slug, 0), slug |-> slug]

\* The loop run at most once: the suffixed slug is not checked again.
SluggerSlugOnce(occ, value) ==
  LET original == BaseSlug(value) IN
  IF original \in DOMAIN occ
  THEN LET occ1 == SetOccurrence(occ, original, occ[original] + 1)
           slug == original \o <<"-">> \o Decimal(occ1[original])
       IN [occurrences |-> SetOccurrence(occ1, slug, 0), slug |-> slug]
  ELSE [occurrences |-> SetOccurrence(occ, original, 0), slug |-> original]

\* this.#slugger.slug(raw)
SluggerSlug(occ, value) == SlugLoop(occ, BaseSlug(value), BaseSlug(value))

-----------------------------------------------------------------------------
(* Renderer.                                                               *)

\* new Renderer(options)
NewRenderer(o) ==
  [baseUrl |-> o.baseUrl,
   allowMath |-> o.allowMath,
   noLinks |-> o.noLinks,
   ytEmbed |-> IF o.youtubeHandling = UNDEF THEN "lite" ELSE o.youtubeHandling,
   hasSlugger |-> o.githubSlugger,
   occurrences |-> NoEntries,
   mermaidImport |-> FALSE,
   lightYTEmbedImport |-> FALSE,
   mermaidEnabled |-> o.mermaid]

\* What a Renderer method leaves: the instance, the HTML it returned, and
\* whether it threw instead.
Rendered(r, elems) == [r |-> r, elems |-> elems, threw |-> FALSE]
Thrown(r) == [r |-> r, elems |-> <<>>, threw |-> TRUE]

\* Renderer.heading(text, level, raw)
RendererHeading(r, raw) ==
  IF r.noLinks \/ ~r.hasSlugger
  THEN Rendered(r, <<El("h1", "content", <<>>, <<>>, {}, raw)>>)
  ELSE LET got == SluggerSlug(r.occurrences, raw) IN
       Rendered([r EXCEPT !.occurrences = got.occurrences],
                <<El("h1", "content", got.slug, <<>>, {}, raw),
                  El("a", "content", <<>>, <<"#">> \o got.slug, {"anchor"}, <<>>)>>)

\* The elements the HTML parser finds in a code block's text that is put in
\* the output without escaping.
RawMarkup(code) ==
  IF code = <<"<script>">> THEN <<El("script", "content", <<>>, <<>>, {}, <<>>)>>
  ELSE <<TextNode(code)>>

\* Renderer.code(code, language) for the language math.  katex.renderToString
\* throws on an expression it cannot parse.
RendererCodeMath(r, code, valid) ==
  IF r.allowMath
  THEN IF valid
       THEN Rendered(r, <<El("span", "content", <<>>, <<>>, {"katex"}, code)>>)
       ELSE Thrown(r)
  ELSE Rendered(r, <<El("pre", "content", <<>>, <<>>, {}, <<>>),
                     El("code", "content", <<>>, <<>>, {"notranslate"}, code)>>)

\* Renderer.code(code, language) for the language mermaid, for which Prism has
\* no grammar.
RendererCodeMermaid(r, code) ==
  IF r.mermaidEnabled
  THEN Rendered([r EXCEPT !.mermaidImport = TRUE],
                <<El("div", "content", <<>>, <<>>, {"mermaid-container"}, <<>>),
                  El("pre", "content", <<>>, <<>>, {}, <<>>),
                  El("code", "content", <<>>, <<>>, {"notranslate"}, <<>>)>>
                \o RawMarkup(code)
                \o <<El("div", "content", <<>>, <<>>, {"mermaid-code"}, <<>>)>>
                \o RawMarkup(code))
  ELSE Rendered(r, <<El("pre", "content", <<>>, <<>>, {}, <<>>),
                     El("code", "content", <<>>, <<>>, {"notranslate"}, code)>>)

\* Renderer.image(src, title, alt) for a src isYoutubeVideo accepts.
RendererImageYoutube(r, src) ==
  IF r.ytEmbed = "link"
  THEN Rendered(r, <<El("a", "content", <<>>, src, {}, <<"Youtube video">>)>>)
  ELSE Rendered([r EXCEPT !.lightYTEmbedImport = (r.ytEmbed = "lite")],
                IF r.ytEmbed = "lite"
                THEN <<El("lite-youtube", "content", <<>>, <<>>, {"youtube-embed"}, <<>>),
                       El("a", "content", <<>>, <<"https://youtube.com/watch?v=">>, {"lty-playbtn"}, <<>>),
                       El("span", "content", <<>>, <<>>, {"lyt-visually-hidden"}, <<"Youtube Player">>)>>
                ELSE <<El("iframe", "content", <<>>, <<"https://www.youtube-nocookie.com/embed/">>,
                          {"youtube-embed"}, <<>>)>>)

\* The URLs of the model that parse without a base.
IsAbsolute(url) ==
  url # <<>> /\ Head(url) \in {BaseURL, MediaURL, "https://youtu.be/",
                               "https://youtube.com/watch?v=",
                               "https://www.youtube-nocookie.com/embed/"}

\* new URL(url, base).href: throws when the base does not parse or the url is
\* malformed; an absolute url is kept, a relative one is joined to the base.
ResolveURL(url, base) ==
  IF base \notin {BaseURL, MediaURL} \/ url = <<"http://[">>
  THEN [ok |-> FALSE, href |-> <<>>]
  ELSE [ok |-> TRUE, href |-> IF IsAbsolute(url) THEN url ELSE <<base>> \o url]

\* A url of the model is a sequence of parts; a part that opens an absolute
\* url opens with http:// or https://.
HttpParts ==
  {"https://base/", "https://media/", "https://youtu.be/", "https://youtube.com/watch?v=",
   "https://www.youtube-nocookie.com/embed/", "http://["}

\* isLocalPath(src)
IsLocalPath(src) == src = <<>> \/ Head(src) \notin HttpParts

\* (contentType(path.extname(src)) || "").includes("video")
IsVideoName(src) == src # <<>> /\ src[Len(src)] = ".mp4"

\* Renderer.image(src, title, alt) for a src that is no youtube link: a video
\* element for a local video file, an img element otherwise.
RendererImage(r, src) ==
  IF IsLocalPath(src) /\ IsVideoName(src)
  THEN Rendered(r, <<El("video", "content", <<>>, src, {}, <<>>)>>)
  ELSE Rendered(r, <<El("img", "content", <<>>, src, {}, <<>>)>>)

\* The text of the links of the model.
LinkText == <<"t">>

\* Renderer.link without the try around new URL: a failed resolution leaves
\* the method by its exception.
RendererLinkUncaught(r, href) ==
  IF r.noLinks THEN Rendered(r, <<TextNode(LinkText)>>)
  ELSE IF href # <<>> /\ Head(href) = "#"
  THEN Rendered(r, <<El("a", "content", <<>>, href, {}, LinkText)>>)
  ELSE IF r.baseUrl = UNDEF
  THEN Rendered(r, <<El("a", "content", <<>>, href, {}, LinkText)>>)
  ELSE LET got == ResolveURL(href, r.baseUrl) IN
       IF got.ok THEN Rendered(r, <<El("a", "content", <<>>, got.href, {}, LinkText)>>)
       ELSE Thrown(r)

\* Renderer.link(href, title, text)
RendererLink(r, href) ==
  IF r.noLinks THEN Rendered(r, <<TextNode(LinkText)>>)
  ELSE IF href # <<>> /\ Head(href) = "#"
  THEN Rendered(r, <<El("a", "content", <<>>, href, {}, LinkText)>>)
  ELSE LET got == IF r.baseUrl # UNDEF THEN ResolveURL(href, r.baseUrl)
                  ELSE [ok |-> FALSE, href |-> <<>>]
       IN Rendered(r, <<El("a", "content", <<>>, IF got.ok THEN got.href ELSE href,
                          {}, LinkText)>>)

\* The renderer call Marked makes for one construct.
RenderItem(r, item) ==
  CASE item.kind = "heading"       -> RendererHeading(r, item.text)
    [] item.kind = "code_math"     -> RendererCodeMath(r, item.text, item.valid)
    [] item.kind = "code_mermaid"  -> RendererCodeMermaid(r, item.text)
    [] item.kind = "image_youtube" -> RendererImageYoutube(r, item.text)
    [] item.kind = "image"         -> RendererImage(r, item.text)
    [] item.kind = "link"          -> RendererLink(r, item.text)
    [] item.kind = "html_script"   -> Rendered(r, <<El("script", "content", <<>>, <<>>, {}, <<>>)>>)
    [] item.kind = "katex"         -> Rendered(r, <<El("span", "content", <<>>, <<>>, {"katex"}, item.text)>>)
    [] OTHER                       -> Rendered(r, <<TextNode(item.text)>>)

\* markedInstance.parse(markdown, marked_opts): the constructs in order, until
\* a renderer call throws.
RECURSIVE Parse(_, _, _)
Parse(items, r, elems) ==
  IF items = <<>> THEN Rendered(r, elems)
  ELSE LET one == RenderItem(r, Head(items)) IN
       IF one.threw THEN Thrown(one.r)
       ELSE Parse(Tail(items), one.r, elems \o one.elems)

\* mathify(markdown): each $...$ and $$...$$ span is replaced by the math
\* engine's output, or left as it is when the engine throws.
RECURSIVE Mathify(_)
Mathify(items) ==
  IF items = <<>> THEN <<>>
  ELSE LET it == Head(items) IN
       <<IF it.kind \in {"inline_math", "block_math"} /\ it.valid
         THEN Item("katex", it.text, TRUE) ELSE it>> \o Mathify(Tail(items))

-----------------------------------------------------------------------------
(* The sanitizer policy and sanitize-html.                                 *)

\* sanitizeHtml.defaults.allowedTags
SanitizeDefaultTags ==
  {"address", "article", "aside", "footer", "header", "h1", "h2", "h3", "h4",
   "h5", "h6", "hgroup", "main", "nav", "section", "blockquote", "dd", "div",
   "dl", "dt", "figcaption", "figure", "hr", "li", "ol", "p", "pre", "ul", "a",
   "abbr", "b", "bdi", "bdo", "br", "cite", "code", "data", "dfn", "em", "i",
   "kbd", "mark", "q", "rb", "rp", "rt", "rtc", "ruby", "s", "samp", "small",
   "span", "strong", "sub", "sup", "time", "u", "var", "wbr", "caption", "col",
   "colgroup", "table", "tbody", "td", "tfoot", "th", "thead", "tr"}

MathTags ==
  {"math", "maction", "annotation", "annotation-xml", "menclose", "merror",
   "mfenced", "mfrac", "mi", "mmultiscripts", "mn", "mo", "mover", "mpadded",
   "mphantom", "mprescripts", "mroot", "mrow", "ms", "semantics", "mspace",
   "msqrt", "mstyle", "msub", "msup", "msubsup", "mtable", "mtd", "mtext", "mtr"}

\* The classes of the math engine's output (style.ts).
KATEX_CLASSES == {"katex", "katex-display", "katex-html", "katex-mathml"}

\* defaultAllowedTags
DefaultAllowedTags(o) ==
  SanitizeDefaultTags
  \cup {"img", "video", "svg", "path", "circle", "figure", "figcaption", "del",
        "details", "summary", "input"}
  \cup (IF o.allowIframes THEN {"iframe"} ELSE {})
  \cup (IF o.allowMath THEN MathTags ELSE {})

\* defaultAllowedClasses
DefaultAllowedClasses(o) ==
  [div |-> {"highlight", "highlight-source-*", "notranslate", "markdown-alert",
            "markdown-alert-*", "markdown-code-title", "mermaid-code",
            "mermaid-container"},
   span |-> {"token", "keyword", "operator", "number", "boolean", "function",
             "string", "comment", "class-name", "regex", "regex-delimiter",
             "tag", "attr-name", "punctuation", "script-punctuation", "script",
             "plain-text", "property", "prefix", "line", "deleted", "inserted",
             "key", "atrule"}
            \cup (IF o.allowMath THEN KATEX_CLASSES ELSE {}),
   a |-> {"anchor"},
   p |-> {"markdown-alert-title"},
   svg |-> {"octicon", "octicon-alert", "octicon-link"},
   h2 |-> {"sr-only"},
   section |-> {"footnotes"}]

\* defaultAllowedAttributes; the entries a and img of sanitize-html's defaults
\* are both overwritten by the literal.
DefaultAllowedAttributes(o) ==
  [img |-> {"src", "alt", "height", "width", "align", "title"},
   video |-> {"src", "alt", "height", "width", "autoplay", "muted", "loop",
              "playsinline", "poster", "controls", "title"},
   a |-> {"id", "aria-hidden", "href", "tabindex", "rel", "target", "title",
          "data-footnote-ref", "data-footnote-backref", "aria-label",
          "aria-describedby"},
   svg |-> {"viewBox", "width", "height", "aria-hidden", "background"},
   path |-> {"fill-rule", "d"},
   circle |-> {"cx", "cy", "r", "stroke", "stroke-width", "fill", "alpha"},
   span |-> IF o.allowMath THEN {"aria-hidden", "style"} ELSE {},
   h1 |-> {"id"}, h2 |-> {"id"}, h3 |-> {"id"}, h4 |-> {"id"}, h5 |-> {"id"},
   h6 |-> {"id"}, li |-> {"id"},
   td |-> {"colspan", "rowspan", "align", "width"},
   iframe |-> {"src", "width", "height"},
   math |-> {"xmlns"},
   annotation |-> {"encoding"},
   details |-> {"open"},
   section |-> {"data-footnotes"},
   input |-> {"checked", "disabled", "type=checkbox"}]

\* mergeAttributes(defaults, customs)
MergeAttributes(defaults, customs) ==
  [tag \in DOMAIN defaults \cup DOMAIN customs |->
     IF tag \in DOMAIN customs
     THEN (IF tag \in DOMAIN defaults THEN defaults[tag] ELSE {}) \cup customs[tag]
     ELSE defaults[tag]]

\* { ...defaults, ...customs }
Spread(defaults, customs) ==
  [tag \in DOMAIN defaults \cup DOMAIN customs |->
     IF tag \in DOMAIN customs THEN customs[tag] ELSE defaults[tag]]

\* The options object of the sanitizeHtml call.
Policy(o) ==
  [allowedTags |-> DefaultAllowedTags(o) \cup o.allowedTags,
   allowedAttributes |-> MergeAttributes(DefaultAllowedAttributes(o), o.allowedAttributes),
   allowedClasses |-> Spread(DefaultAllowedClasses(o), o.allowedClasses)]

NoPolicy == [allowedTags |-> {}, allowedAttributes |-> NoEntries, allowedClasses |-> NoEntries]

\* transformMedia(tagName, attribs)
TransformMedia(o, el) ==
  IF o.mediaBaseUrl # UNDEF /\ el.src # <<>>
  THEN LET got == ResolveURL(el.src, o.mediaBaseUrl) IN
       [el EXCEPT !.src = IF got.ok THEN got.href ELSE <<>>]
  ELSE el

\* The tags sanitize-html drops together with their content.
NonTextTags == {"script", "style", "textarea", "option"}

AttributeAllowed(pol, tag, name) ==
  tag \in DOMAIN pol.allowedAttributes /\ name \in pol.allowedAttributes[tag]

\* sanitize-html on one element: the tag transform, then the allow-lists.
SanitizeElement(el, pol, o) ==
  IF el.tag = "#text" THEN <<el>>
  ELSE LET t == IF el.tag \in {"img", "video"} THEN TransformMedia(o, el) ELSE el IN
       IF t.tag \notin pol.allowedTags
       THEN IF t.tag \in NonTextTags \/ t.text = <<>> THEN <<>> ELSE <<TextNode(t.text)>>
       ELSE <<[t EXCEPT
                 !.id = IF AttributeAllowed(pol, t.tag, "id") THEN @ ELSE <<>>,
                 !.src = IF AttributeAllowed(pol, t.tag, IF t.tag = "a" THEN "href" ELSE "src")
                         THEN @ ELSE <<>>,
                 !.cls = IF t.tag \in DOMAIN pol.allowedClasses
                         THEN @ \cap pol.allowedClasses[t.tag] ELSE {}]>>

\* sanitizeHtml(html, options)
RECURSIVE SanitizeHtml(_, _, _)
SanitizeHtml(elems, pol, o) ==
  IF elems = <<>> THEN <<>>
  ELSE SanitizeElement(Head(elems), pol, o) \o SanitizeHtml(Tail(elems), pol, o)

\* additionalCode: the fragments for the widgets the renderer recorded.
AdditionalCode(r) ==
  (IF r.mermaidImport
   THEN <<El("script", "mermaid", <<>>, <<>>, {}, <<>>), El("style", "mermaid", <<>>, <<>>, {}, <<>>)>>
   ELSE <<>>)
  \o
  (IF r.lightYTEmbedImport
   THEN <<El("script", "lite-youtube", <<>>, <<>>, {}, <<>>),
          El("link", "lite-youtube", <<>>, <<>>, {}, <<>>)>>
   ELSE <<>>)

\* render returning the body as it was rendered, whatever the options say.
RenderReturnUnsanitized(o, r, elems) == AdditionalCode(r) \o elems

\* The two return statements of render.
RenderReturn(o, r, elems) ==
  IF o.disableHtmlSanitization
  THEN AdditionalCode(r) \o elems
  ELSE AdditionalCode(r) \o SanitizeHtml(elems, Policy(o), o)

InitRender ==
  /\ opts = DefaultOpts
  /\ custom = NewRenderer(DefaultOpts)
  /\ renderer = NewRenderer(DefaultOpts)
  /\ markdown = <<>>
  /\ policy = NoPolicy
  /\ html = <<>>
  /\ result = "none"
  /\ calls = 0

Init == InitStrip /\ InitRender

\* The caller builds the options object it will pass to render.
SetOptions ==
  /\ result = "none"
  /\ \E o \in Options : opts' = o
  /\ UNCHANGED <<custom, renderer, markdown, policy, html, result, calls>>
  /\ UNCHANGED stripVars

\* opts.mediaBaseUrl ??= opts.baseUrl, on the caller's object.
DefaultMediaBaseUrl(o) ==
  [o EXCEPT !.mediaBaseUrl = IF @ = UNDEF THEN o.baseUrl ELSE @]

\* getOpts(opts).renderer: the caller's instance when opts.renderer is set,
\* a new Renderer otherwise.
GetOptsRenderer(o, instance) == IF o.renderer THEN instance ELSE NewRenderer(o)

\* The body of render(md, opts), with the caller's Renderer instance when
\* opts.renderer is set.  An exception of a renderer call leaves render at once.
RenderCall(md) ==
  LET o1 == DefaultMediaBaseUrl(opts)
      md1 == IF o1.allowMath THEN Mathify(md) ELSE md
      r0 == GetOptsRenderer(o1, custom)
      parsed == Parse(md1, r0, <<>>)
  IN /\ opts' = o1
     /\ markdown' = md
     /\ renderer' = parsed.r
     /\ custom' = IF o1.renderer THEN parsed.r ELSE custom
     /\ result' = IF parsed.threw THEN "threw" ELSE "returned"
     /\ html' = IF parsed.threw THEN <<>> ELSE RenderReturn(o1, parsed.r, parsed.elems)
     /\ policy' = IF parsed.threw \/ o1.disableHtmlSanitization THEN NoPolicy ELSE Policy(o1)
     /\ calls' = calls + 1

\* One call of render on a document of Markdowns.
Render ==
  /\ result = "none"
  /\ \E md \in Markdowns : RenderCall(md)
  /\ UNCHANGED stripVars

Next ==
  \/ StripSplitBySections
  \/ Strip
  \/ Enter
  \/ SwitchLeaf
  \/ SwitchList
  \/ TableCell
  \/ TableCellEnd
  \/ TableRowEnd
  \/ Return

Spec == Init /\ [][Next]_vars

NextRender ==
  \/ SetOptions
  \/ Render

SpecRender == Init /\ [][NextRender]_vars

-----------------------------------------------------------------------------
(* A caller that keeps its options object and its Renderer instance and    *)
(* calls render several times.                                             *)

\* Most render calls of one caller.
MaxCalls == 2

\* A base URL that new URL rejects.
BadURL == "not a url"

\* The option objects of the caller.
SessionOptions ==
  { [DefaultOpts EXCEPT !.baseUrl = b, !.mediaBaseUrl = m] :
      b \in {UNDEF, BaseURL, BadURL}, m \in {UNDEF, MediaURL, BadURL} }
  \cup
  { [DefaultOpts EXCEPT !.renderer = TRUE],
    [DefaultOpts EXCEPT !.renderer = TRUE, !.baseUrl = BaseURL],
    [DefaultOpts EXCEPT !.noLinks = TRUE, !.baseUrl = BadURL],
    [DefaultOpts EXCEPT !.disableHtmlSanitization = TRUE, !.baseUrl = BadURL],
    [DefaultOpts EXCEPT !.mermaid = TRUE] }

\* The options the caller constructs its own Renderer with.
RendererOptions ==
  { DefaultOpts,
    [DefaultOpts EXCEPT !.mermaid = TRUE, !.baseUrl = BadURL] }

\* The documents of the caller: links and media whose URL is relative,
\* absolute, malformed or a fragment, and the constructs that leave state in
\* the Renderer.
SessionMarkdowns ==
  { <<>>,
    <<Item("heading", <<"f">>, TRUE)>>,
    <<Item("heading", <<"f">>, TRUE), Item("heading", <<"f">>, TRUE)>>,
    <<Item("image_youtube", <<"https://youtu.be/", "dQw4w9WgXcQ">>, TRUE)>>,
    <<Item("code_mermaid", <<"graph">>, TRUE)>>,
    <<Item("link", <<"p">>, TRUE)>>,
    <<Item("link", <<MediaURL, "p">>, TRUE)>>,
    <<Item("link", <<"http://[">>, TRUE)>>,
    <<Item("link", <<"#", "s">>, TRUE)>>,
    <<Item("image", <<"a.png">>, TRUE)>>,
    <<Item("image", <<BaseURL, "a.png">>, TRUE)>>,
    <<Item("image", <<"http://[">>, TRUE)>>,
    <<Item("image", <<"v", ".mp4">>, TRUE)>>,
    <<Item("link", <<"http://[">>, TRUE), Item("image", <<"http://[">>, TRUE),
      Item("link", <<"p">>, TRUE)>> }

\* The caller builds its options object and its Renderer instance.
NewOptions ==
  /\ calls = 0
  /\ result = "none"
  /\ \E o \in SessionOptions, ro \in RendererOptions :
       /\ opts' = o
       /\ custom' = NewRenderer(ro)
  /\ UNCHANGED <<renderer, markdown, policy, html, result, calls>>
  /\ UNCHANGED stripVars

\* Between two calls the caller assigns another base URL to its options
\* object.
SetBaseUrl ==
  /\ result # "none"
  /\ calls < MaxCalls
  /\ \E b \in {BaseURL, MediaURL} \ {opts.baseUrl} : opts' = [opts EXCEPT !.baseUrl = b]
  /\ UNCHANGED <<custom, renderer, markdown, policy, html, result, calls>>
  /\ UNCHANGED stripVars

\* One more call of render with the objects the caller holds.
RenderAgain ==
  /\ calls < MaxCalls
  /\ \E md \in SessionMarkdowns : RenderCall(md)
  /\ UNCHANGED stripVars

NextCalls ==
  \/ NewOptions
  \/ SetBaseUrl
  \/ RenderAgain

SpecCalls == Init /\ [][NextCalls]_vars

-----------------------------------------------------------------------------
(* Properties of the section stripper.                                     *)

\* The levels of the heading tokens of a token sequence, in document order.
RECURSIVE HeadingLevels(_), CellLevels(_), RowLevels(_)
HeadingLevels(toks) ==
  IF toks = <<>> THEN <<>>
  ELSE LET t == Head(toks) IN
       (IF t.type = "heading" THEN <<t.depth>> ELSE <<>>)
       \o HeadingLevels(t.tokens) \o CellLevels(t.header) \o RowLevels(t.rows)
       \o HeadingLevels(t.items) \o HeadingLevels(Tail(toks))
CellLevels(cells) ==
  IF cells = <<>> THEN <<>>
  ELSE HeadingLevels(Head(cells).tokens) \o CellLevels(Tail(cells))
RowLevels(rows) ==
  IF rows = <<>> THEN <<>>
  ELSE CellLevels(Head(rows)) \o RowLevels(Tail(rows))

NoLongRun(s) ==
  \A p \in 1..(Len(s) - 2) : ~(s[p] = NL /\ s[p + 1] = NL /\ s[p + 2] = NL)

Trimmed(s) == s = <<>> \/ (~IsSpace(s[1]) /\ ~IsSpace(s[Len(s)]))

Done == pc = "done"

\* C1: stripSplitBySections returns one section per heading token of the tree
\* plus the seed section: section 0 has depth 0 and the k-th section after it
\* has the level of the k-th heading token in document order, at any nesting.
C1_SectionPerHeading ==
  Done =>
    LET levels == HeadingLevels(tokens) IN
      /\ Len(sections) = Len(levels) + 1
      /\ sections[1].depth = 0
      /\ \A k \in 1..Len(levels) : sections[k + 1].depth = levels[k]

\* A finished walk of a document with a heading nested in a blockquote or a
\* list item next to a top-level heading.
C1_Witness ==
  /\ Done
  /\ \E i \in 1..Len(tokens) : tokens[i].type \in {"blockquote", "list"}
                               /\ HeadingLevels(<<tokens[i]>>) # <<>>
  /\ \E i \in 1..Len(tokens) : tokens[i].type = "heading"
  /\ Len(sections) = 3

\* C2: every section of the returned sequence has a trimmed header and a
\* trimmed content, neither with a run of three or more newlines.
C2_AllSectionsFinalized ==
  Done =>
    \A k \in 1..Len(sections) :
      /\ Trimmed(sections[k].header) /\ NoLongRun(sections[k].header)
      /\ Trimmed(sections[k].content) /\ NoLongRun(sections[k].content)

\* C3: the text strip returns ends with a newline and has no run of three or
\* more newlines.
C3_StripText ==
  (Done /\ call = "strip") =>
    /\ out # <<>>
    /\ out[Len(out)] = NL
    /\ NoLongRun(out)

\* strip returned for a document whose joined sections hold a run of three or
\* more newlines around a section with an empty content.
C3_Witness ==
  /\ Done /\ call = "strip"
  /\ Len(sections) >= 3
  /\ \E k \in 2..Len(sections) : sections[k].content = <<>> /\ sections[k].header # <<>>
  /\ ~NoLongRun(Trim(JoinSections(sections)))

\* A stripTokens call below the top of the stack is walking the child tokens
\* of a heading token.
InHeading ==
  /\ Walking
  /\ \E d \in 1..(Len(stack) - 1) :
       /\ stack[d].phase = "switch"
       /\ stack[d].toks[stack[d].i].type = "heading"

AtLeaf == AtToken /\ Top.phase = "switch" /\ Cur.type \notin {"table", "list"}

\* C8: while a heading token's inline content is walked, at any nesting, no
\* section's content changes, and the text a token appends goes to the header of
\* the section the heading opened.
C8_HeadingTextInHeader ==
  [][InHeading =>
       /\ \A k \in 1..Len(sections) : sections'[k].content = sections[k].content
       /\ AtLeaf => sections'[Len(sections)].header =
                       sections[Len(sections)].header \o LeafText(Cur)]_vars

\* C9: a step of the walk changes no section but the one the most recent
\* heading opened: text is appended there, and a heading finalizes that one.
C9_TextToLatestSection ==
  [][Walking =>
       \A k \in 1..Len(sections) : k # Len(sections) => sections'[k] = sections[k]]_vars

\* C10: at a heading token the previous section's header and content are
\* trimmed and every run of three or more newlines in them becomes one blank
\* line, two newline characters.
C10_FinalizeKeepsBlankLine ==
  [][(AtToken /\ Top.phase = "enter" /\ Cur.type = "heading") =>
       /\ sections'[Top.index].content =
            ReplaceRuns(Trim(sections[Top.index].content), <<NL, NL>>)
       /\ sections'[Top.index].header =
            ReplaceRuns(Trim(sections[Top.index].header), <<NL, NL>>)]_vars

-----------------------------------------------------------------------------
(* Properties of render.                                                   *)

Sanitized == result = "returned" /\ ~opts.disableHtmlSanitization

\* C4: whatever the caller adds to allowedTags, allowedAttributes and
\* allowedClasses, every tag, attribute and class the defaults allow is allowed
\* by the options render passes to the sanitizer.
C4_AdditiveMerge ==
  Sanitized =>
    /\ DefaultAllowedTags(opts) \subseteq policy.allowedTags
    /\ \A tag \in DOMAIN DefaultAllowedAttributes(opts) :
         /\ tag \in DOMAIN policy.allowedAttributes
         /\ DefaultAllowedAttributes(opts)[tag] \subseteq policy.allowedAttributes[tag]
    /\ \A tag \in DOMAIN DefaultAllowedClasses(opts) :
         /\ tag \in DOMAIN policy.allowedClasses
         /\ DefaultAllowedClasses(opts)[tag] \subseteq policy.allowedClasses[tag]

\* Every script element of the output is part of a fragment render prepended
\* for a widget flag that is set.
OnlyAuxiliaryScripts ==
  \A i \in 1..Len(html) :
    html[i].tag = "script" =>
      \/ html[i].origin = "mermaid" /\ renderer.mermaidImport
      \/ html[i].origin = "lite-youtube" /\ renderer.lightYTEmbedImport

\* C5, as claimed: with sanitization enabled, for every configuration, the
\* output has a script element only as part of a prepended widget fragment.
C5_NoContentScript == Sanitized => OnlyAuxiliaryScripts

\* C5, amended: the same, for the configurations whose allowedTags do not add
\* script.
C5_NoContentScriptUnlessAllowed ==
  (Sanitized /\ "script" \notin opts.allowedTags) => OnlyAuxiliaryScripts

\* A sanitized render of a document with a raw script element and a diagram
\* block holding script markup, with the diagram fragment prepended.
C5_Witness ==
  /\ Sanitized /\ "script" \notin opts.allowedTags
  /\ \E i \in 1..Len(markdown) : markdown[i].kind = "html_script"
  /\ \E i \in 1..Len(markdown) : markdown[i].kind = "code_mermaid"
  /\ renderer.mermaidImport
  /\ \E i \in 1..Len(html) : html[i].tag = "script" /\ html[i].origin = "mermaid"

IsMath(item) == item.kind \in {"inline_math", "block_math", "code_math"}

\* C6: with math enabled render never throws; the source of an expression the
\* math engine rejects is in the output, and the other $ spans are typeset.
C6_MathFailureContained ==
  (result # "none" /\ opts.allowMath) =>
    /\ result = "returned"
    /\ \A i \in 1..Len(markdown) :
         (IsMath(markdown[i]) /\ ~markdown[i].valid) =>
           \E j \in 1..Len(html) : html[j].text = markdown[i].text
                                   /\ "katex" \notin html[j].cls
    /\ \A i \in 1..Len(markdown) :
         (markdown[i].kind \in {"inline_math", "block_math"} /\ markdown[i].valid) =>
           \E j \in 1..Len(html) : html[j].text = markdown[i].text
                                   /\ "katex" \in html[j].cls

\* The heading elements of the output, in order.
HeadingElements == SelectSeq(html, LAMBDA e : e.tag = "h1")

HeadingItems == SelectSeq(markdown, LAMBDA it : it.kind = "heading")

IsPrefix(p, q) == Len(p) <= Len(q) /\ SubSeq(q, 1, Len(p)) = p

\* C7: in one render whose renderer generates heading anchors, every heading
\* gets an id, the ids are pairwise distinct, each id starts with the slug of
\* its heading's text, and with a new slugger the first heading's id is that
\* slug itself.
C7_HeadingIdsDistinct ==
  (result = "returned" /\ renderer.hasSlugger /\ ~renderer.noLinks) =>
    LET hs == HeadingElements IN
      /\ Len(hs) = Len(HeadingItems)
      /\ \A i \in 1..Len(hs) :
           /\ hs[i].id # <<>>
           /\ IsPrefix(BaseSlug(HeadingItems[i].text), hs[i].id)
      /\ \A i, j \in 1..Len(hs) : i # j => hs[i].id # hs[j].id
      /\ (hs # <<>> /\ ~opts.renderer) => hs[1].id = BaseSlug(HeadingItems[1].text)

\* A render of three headings, two with the same text and one whose text is the
\* slug the second one got.
C7_Witness ==
  /\ result = "returned"
  /\ Len(HeadingElements) = 3
  /\ HeadingElements[1].id = <<"f">>
  /\ HeadingElements[2].id = <<"f", "-", "1">>
  /\ HeadingElements[3].id = <<"f", "-", "1", "-", "1">>
  /\ HeadingItems[3].text = <<"f", "-", "1">>

-----------------------------------------------------------------------------
(* Properties of a sequence of render calls.                               *)

\* A step that is one call of render.
RenderStep == calls' = calls + 1

\* The Renderer instance the call that starts in this state parses with.
StartRenderer == GetOptsRenderer(DefaultMediaBaseUrl(opts), custom)

\* A Renderer instance with the state it had when it was constructed.
AsConstructed(r) ==
  [r EXCEPT !.occurrences = NoEntries, !.mermaidImport = FALSE,
            !.lightYTEmbedImport = FALSE]

\* C11: at the start of every render call, in any sequence of calls, the slug
\* allocator of the renderer the call uses is empty and both widget flags are
\* clear, so the call returns what it returns with a renderer in the state of
\* its construction: the fragments of the widgets its own document used, and
\* heading ids that do not depend on earlier documents.
C11_RenderStateScoped ==
  [][RenderStep =>
       /\ StartRenderer.occurrences = NoEntries
       /\ ~StartRenderer.mermaidImport
       /\ ~StartRenderer.lightYTEmbedImport
       /\ LET o1 == DefaultMediaBaseUrl(opts)
              parsed == Parse(markdown', AsConstructed(StartRenderer), <<>>)
          IN html' = RenderReturn(o1, parsed.r, parsed.elems)]_vars

\* C12: a render call leaves the options object of the caller as it was: every
\* field, the media base URL among them, has after the call the value, or the
\* absence, it had before.
C12_OptionsNotModified == [][RenderStep => opts' = opts]_vars

\* The link constructs of the document, and the anchors render returned for
\* them, in order.
LinkItems == SelectSeq(markdown, LAMBDA it : it.kind = "link")
LinkElements == SelectSeq(html, LAMBDA e : e.tag = "a" /\ e.text = LinkText)

\* The image constructs of the document that are no youtube link, and the img
\* and video elements render returned, in order.
MediaItems == SelectSeq(markdown, LAMBDA it : it.kind = "image")
MediaElements == SelectSeq(html, LAMBDA e : e.tag \in {"img", "video"})

\* new URL(url, base) throws.
ResolutionFails(url, base) == ~ResolveURL(url, base).ok

\* C13: a URL that does not resolve against the configured base URL never makes
\* render throw.  Every link still gets its anchor, with the href as written
\* when the resolution fails or the renderer has no base URL; every image gets
\* its img or video element, without src when the resolution against the media
\* base URL fails and with the src as written when there is no media base URL.
C13_ResolutionFailureContained ==
  /\ result # "threw"
  /\ (result = "returned" /\ ~renderer.noLinks) =>
       /\ Len(LinkElements) = Len(LinkItems)
       /\ \A i \in 1..Len(LinkItems) :
            (renderer.baseUrl = UNDEF \/ ResolutionFails(LinkItems[i].text, renderer.baseUrl))
              => LinkElements[i].src = LinkItems[i].text
  /\ Sanitized =>
       /\ Len(MediaElements) = Len(MediaItems)
       /\ \A i \in 1..Len(MediaItems) :
            /\ opts.mediaBaseUrl = UNDEF => MediaElements[i].src = MediaItems[i].text
            /\ (opts.mediaBaseUrl # UNDEF
                  /\ ResolutionFails(MediaItems[i].text, opts.mediaBaseUrl))
                 => MediaElements[i].src = <<>>

\* A sanitized render of a malformed link under a base URL and a malformed image
\* under a media base URL that does not parse.
C13_Witness ==
  /\ Sanitized
  /\ renderer.baseUrl = BaseURL
  /\ opts.mediaBaseUrl = BadURL
  /\ Len(LinkItems) = 2
  /\ ResolutionFails(LinkItems[1].text, renderer.baseUrl)
  /\ LinkElements[1].src = <<"http://[">>
  /\ Len(MediaItems) = 1
  /\ MediaItems[1].text # <<>>
  /\ MediaElements[1].src = <<>>

====
